---------------------------- MODULE Spec2Model ----------------------------
(***************************************************************************)
(* A state-machine model of DistillationDQN                               *)
(* (rl_algorithms/distillation/dqn_agent.py): the mode check and wiring  *)
(* of _initialize, the collection loop of _test with select_action and   *)
(* step, the student branch and the add_expert_q branch of train, and a   *)
(* teacher's training loop with its state dumps and interim tests.        *)
(*                                                                         *)
(* A path is a sequence of components (<<root, "3", "7.pkl">>); the file  *)
(* system is the set of directories `dirs` and the function `files` from  *)
(* file paths to contents.  Instance attributes that _initialize defines  *)
(* outside __init__ are tracked in `attrs`.                               *)
(***************************************************************************)
EXTENDS Integers, Sequences, FiniteSets, TLC

\* ------------------------------------------------------------- bounds
MaxBufferSize == 3      \* hyper_params.buffer_size ranges over 1..MaxBufferSize
MaxEpisodeNum == 2      \* args.episode_num ranges over 1..MaxEpisodeNum
MaxEpLen      == 2      \* an episode that ends does so after 1..MaxEpLen steps
MaxBatchSize  == 2      \* hyper_params.batch_size ranges over 1..MaxBatchSize
MaxEpochs     == 3      \* hyper_params.epochs ranges over 0..MaxEpochs
MaxStored     == 4      \* samples found under the student's buffer_path
MaxRecords    == 1      \* Raw State Records per source directory
NumStates     == 2      \* distinct environment observations
MaxDumped     == 2      \* training steps of a teacher run the model follows

States  == 1..NumStates

VARIABLES
    args,           \* command line: the mode flags, episode_num, distillation_buffer_path
    hyper_params,   \* buffer_size, batch_size, epochs, buffer_path
    env,            \* the environment: the length of each episode it will play
    stored,         \* number of Transition Samples on disk under the student's buffer_path
    pc,             \* control position of the run
    error,          \* the exception that ended the run, or "none"
    attrs,          \* names of the instance attributes defined so far
    dirs,           \* directories that exist
    made,           \* directories this run's makedirs calls created
    files,          \* file path -> content
    buffer_path,    \* self.buffer_path
    memory,         \* self.memory, the DistillationBuffer
    learner,        \* self.learner: parameter checkpoints and optimizer steps
    save_distillation_dir,
    save_count,
    curr_state,     \* self.curr_state
    loc,            \* locals of _test, and the count of the environment calls it made
    out,            \* messages printed by _test
    full_adds,      \* history: step calls made while memory.idx = buffer_size
    trn,            \* locals of train: steps, n_epoch, iter_1, train_steps, file_name_list
    tch             \* a teacher's training loop: self.i_episode, state, done

vars == << args, hyper_params, env, stored, pc, error, attrs, dirs, made, files,
           buffer_path, memory, learner, save_distillation_dir, save_count,
           curr_state, loc, out, full_adds, trn, tch >>

\* ------------------------------------------------------------- paths
\* f"./data/distillation_buffer/{env_name}/{agent}/{curr_time}/"  (lines 55-58)
DefaultBufferPath  == << "data", "distillation_buffer", "env_name", "agent", "curr_time" >>
\* "./" + self.args.distillation_buffer_path  (line 60)
OverrideBufferPath == << "override" >>
\* hyper_params.buffer_path of a student run  (line 53)
StudentBufferPath  == << "collected" >>
\* "./data/distillation_buffer/" + env_info.name + time.strftime(...)  (lines 71-75)
DumpDir            == << "data", "distillation_buffer", "env_name", "strftime" >>
NoPath             == << >>

SourceRoots == << <<"runA">>, <<"runB">> >>

\* "{}.pkl".format(n)
PklName(n) == ToString(n) \o ".pkl"

IsPrefix(d, p) == Len(d) < Len(p) /\ SubSeq(p, 1, Len(d)) = d

\* os.listdir(d): the names of the entries directly under d
ListDir(d) ==
    { p[Len(d) + 1] : p \in { q \in dirs \cup DOMAIN files : IsPrefix(d, q) } }

\* os.makedirs(p): p and every missing ancestor
Ancestors(p) == { SubSeq(p, 1, k) : k \in 1..Len(p) }

\* open(p, "wb") + pickle.dump(c): create or overwrite
WriteFile(fs, p, c) == [ q \in DOMAIN fs \cup {p} |-> IF q = p THEN c ELSE fs[q] ]

\* ------------------------------------------------------------- configuration
Flags == [ teacher : BOOLEAN, student : BOOLEAN, add_expert_q : BOOLEAN, test : BOOLEAN ]

\* Python adds the four booleans as integers (lines 41-45)
B2N(b) == IF b THEN 1 ELSE 0

ModeCountMutant(a) == IF a.teacher \/ a.student \/ a.add_expert_q \/ a.test THEN 1 ELSE 0

ModeCount(a) == B2N(a.teacher) + B2N(a.student) + B2N(a.add_expert_q) + B2N(a.test)

\* The buffer path _initialize binds in test mode (lines 55-60).
CollectionPathIgnoringOverride(a) == DefaultBufferPath

CollectionPathOf(a) == IF a.distillation_buffer_path THEN OverrideBufferPath
                                                     ELSE DefaultBufferPath

CollectingUnlessStudent(a) == ~a.student

\* line 118: a pure collection pass
Collecting(a) == a.test /\ ~a.teacher /\ ~a.student

\* The run a configuration asks for; "invalid" when the flags name no single mode.
ModeOf(a) ==
    IF Cardinality({ k \in { "teacher", "student", "add_expert_q", "test" } : a[k] }) # 1
      THEN "invalid"
      ELSE CHOOSE k \in { "teacher", "student", "add_expert_q", "test" } : a[k]

\* An episode either reports done after n steps or never does.
EpLens == { <<"done_after", n>> : n \in 1..MaxEpLen } \cup { <<"never">> }

\* The raw state dumps one teacher run leaves under `root`: records 0..n-1, named by
\* save_count, each in the directory of the episode it was seen in (lines 87-98).
\* Every episode takes a step, so the first record lies in the first episode and each
\* later one in the same episode as its predecessor or in the next.
RECURSIVE Consecutive(_)
Consecutive(s) ==
    Len(s) < 2 \/ (s[2] \in { s[1], s[1] + 1 } /\ Consecutive(Tail(s)))

EpisodeOfRecord(m) == { x \in [1..m -> 1..m] : (m > 0 => x[1] = 1) /\ Consecutive(x) }

TeacherDumps(root) ==
    { [ p \in { root \o << ToString(ep[k]), PklName(k - 1) >> : k \in 1..n }
          |-> << st[CHOOSE k \in 1..n : p = root \o << ToString(ep[k]), PklName(k - 1) >>] >> ]
      : <<n, ep, st>> \in
          UNION { { <<m, e, s>> : e \in EpisodeOfRecord(m), s \in [1..m -> States] }
                  : m \in 0..MaxRecords } }

\* What a run of the same second may have left under the dump directory.
StaleDumps == { [ p \in { DumpDir \o << "1", PklName(0) >> } |-> << s >> ] : s \in States }

Merge(f, g) == [ p \in DOMAIN f \cup DOMAIN g |-> IF p \in DOMAIN f THEN f[p] ELSE g[p] ]

DirsOf(fs) == UNION { Ancestors(SubSeq(p, 1, Len(p) - 1)) : p \in DOMAIN fs }

NoMemory  == [ batch_size |-> 0, path |-> NoPath, idx |-> 0, data |-> << >>,
               buffer_size |-> 0, resets |-> 0, cursor |-> 0 ]
NoLearner == [ saves |-> << >>, updates |-> 0 ]
\* next: the index range(test_num) yields next; resets, taken, finished: the calls
\* of env.reset and env.step so far and the episodes that reported done; passed: the
\* states handed to select_action, in call order.
NoLoc     == [ test_num |-> 0, next |-> 0, i_episode |-> 0, state |-> 0, done |-> FALSE,
               step |-> 0, resets |-> 0, taken |-> 0, finished |-> 0, passed |-> << >> ]
\* next: the episode number range(1, episode_num + 1) yields next; calls: the
\* training-pass select_action calls made so far.
NoTch     == [ next |-> 1, i_episode |-> 0, state |-> 0, done |-> FALSE, calls |-> 0 ]
\* next: the index range(train_steps) yields next; steps is unbound until the loop
\* binds it; todo: the entries of file_name_list the second loop has yet to visit.
NoTrn     == [ steps |-> 0, steps_bound |-> FALSE, n_epoch |-> 0, iter_1 |-> 0,
               train_steps |-> 0, next |-> 0, file_name_list |-> {}, todo |-> {} ]

Init ==
    /\ \E f \in Flags :
       \E en \in (IF ModeOf(f) \in { "test", "teacher" } THEN 1..MaxEpisodeNum ELSE {1}),
          it \in (IF ModeOf(f) = "teacher" THEN 1..MaxEpisodeNum ELSE {1}),
          ov \in (IF ModeOf(f) = "test" THEN BOOLEAN ELSE {FALSE}) :
         args = [ teacher |-> f.teacher, student |-> f.student,
                  add_expert_q |-> f.add_expert_q, test |-> f.test,
                  episode_num |-> en, interim_test_num |-> it,
                  distillation_buffer_path |-> ov ]
    /\ \E bs \in (IF ModeOf(args) = "test" THEN 1..MaxBufferSize ELSE {1}),
          ba \in (IF ModeOf(args) = "student" THEN 1..MaxBatchSize ELSE {1}),
          ep \in (IF ModeOf(args) = "student" THEN 0..MaxEpochs ELSE {1}),
          ns \in (IF ModeOf(args) = "add_expert_q"
                    THEN 1..Len(SourceRoots) ELSE {1}) :
         hyper_params =
           [ buffer_size |-> bs, batch_size |-> ba, epochs |-> ep,
             buffer_path |-> IF args.add_expert_q THEN SubSeq(SourceRoots, 1, ns)
                                                  ELSE << StudentBufferPath >> ]
    /\ env \in [ 1..args.episode_num -> IF ModeOf(args) = "test" THEN EpLens
                                          ELSE { <<"done_after", 1>> } ]
    /\ stored \in (IF ModeOf(args) = "student" THEN 0..MaxStored ELSE {0})
    /\ \E old \in (IF ModeOf(args) \in { "teacher", "add_expert_q" }
                     THEN { << >> } \cup StaleDumps ELSE { << >> }) :
         IF ModeOf(args) = "add_expert_q"
           THEN \E a \in TeacherDumps(SourceRoots[1]) :
                \E b \in (IF Len(hyper_params.buffer_path) = 2
                            THEN TeacherDumps(SourceRoots[2]) ELSE { << >> }) :
                  files = Merge(Merge(a, b), old)
           ELSE files = old
    /\ \E pre \in (IF ModeOf(args) = "test" THEN { {}, { CollectionPathOf(args) } }
                   ELSE IF ModeOf(args) \in { "teacher", "add_expert_q" }
                          /\ DumpDir \notin DirsOf(files)
                     THEN { {}, { DumpDir } }
                   ELSE { {} }) :
         dirs = DirsOf(files) \cup UNION { Ancestors(p) : p \in pre }
                \cup { StudentBufferPath } \cup { SourceRoots[i] : i \in 1..Len(SourceRoots) }
    /\ pc = "start"
    /\ error = "none"
    /\ attrs = {}
    /\ made = {}
    /\ buffer_path = NoPath
    /\ memory = NoMemory
    /\ learner = NoLearner
    /\ save_distillation_dir = NoPath
    /\ save_count = 0
    /\ curr_state = 0
    /\ loc = NoLoc
    /\ out = << >>
    /\ full_adds = 0
    /\ trn = NoTrn
    /\ tch = NoTch

\* ------------------------------------------------------------- DistillationBuffer
\* DistillationBuffer(batch_size, buffer_path, curr_time): empty, bound to a path.
NewBuffer(batch_size, path) ==
    [ batch_size |-> batch_size, path |-> path, idx |-> 0, data |-> << >>,
      buffer_size |-> 0, resets |-> 0, cursor |-> 0 ]

\* memory.add(data): one more Transition Sample, fill level up by one; once the
\* buffer holds `capacity` samples it accepts no more.
BufferAdd(m, data, capacity) ==
    IF m.idx < capacity
      THEN [ m EXCEPT !.idx = @ + 1, !.data = Append(@, data) ]
      ELSE m

\* memory.reset_dataloader(): a fresh shuffled pass over the samples under the path.
ResetDataloader(m) ==
    [ m EXCEPT !.buffer_size = stored, !.resets = @ + 1, !.cursor = 0 ]

\* memory.sample_for_diltillation(): the pass has a next batch while samples remain
HasBatch(m) == m.cursor * m.batch_size < m.buffer_size

NextBatch(m) == [ m EXCEPT !.cursor = @ + 1 ]

\* ------------------------------------------------------------- _initialize
CollectionPath == CollectionPathOf(args)

InitFail(e) ==
    /\ pc' = "failed"
    /\ error' = e
    /\ UNCHANGED << args, hyper_params, env, stored, attrs, dirs, made, files,
                    buffer_path, memory, learner, save_distillation_dir, save_count,
                    curr_state, loc, out, full_adds, trn, tch >>

\* lines 48-65: student or test
InitBuffer ==
    /\ buffer_path' = IF args.student THEN hyper_params.buffer_path[1] ELSE CollectionPath
    /\ IF ~args.student
         THEN /\ dirs' = dirs \cup Ancestors(buffer_path')          \* exist_ok=True
              /\ made' = made \cup (Ancestors(buffer_path') \ dirs)
         ELSE UNCHANGED << dirs, made >>
    /\ memory' = NewBuffer(hyper_params.batch_size, buffer_path')
    /\ attrs' = attrs \cup { "softmax_tau", "learner", "buffer_path", "memory" }
    /\ pc' = "ready"
    /\ UNCHANGED << args, hyper_params, env, stored, error, files, learner,
                    save_distillation_dir, save_count, curr_state, loc, out,
                    full_adds, trn, tch >>

MakedirsTolerant(p, exist_ok) == FALSE

\* os.makedirs(p, exist_ok=...) raises FileExistsError (lines 61, 76)
MakedirsFails(p, exist_ok) == p \in dirs /\ ~exist_ok

\* lines 66-77: teacher or add_expert_q
InitDump ==
    IF MakedirsFails(DumpDir, FALSE)
      THEN /\ pc' = "failed"                                        \* os.makedirs, line 76
           /\ error' = "FileExistsError"
           /\ save_distillation_dir' = DumpDir                      \* lines 71-75
           /\ attrs' = attrs \cup { "learner", "save_distillation_dir" }
           /\ UNCHANGED << args, hyper_params, env, stored, dirs, made, files,
                           buffer_path, memory, learner, save_count, curr_state, loc,
                           out, full_adds, trn, tch >>
      ELSE /\ dirs' = dirs \cup Ancestors(DumpDir)
           /\ made' = made \cup (Ancestors(DumpDir) \ dirs)
           /\ save_distillation_dir' = DumpDir
           /\ save_count' = 0
           /\ attrs' = attrs \cup { "learner", "save_distillation_dir", "save_count" }
           /\ pc' = "ready"
           /\ UNCHANGED << args, hyper_params, env, stored, error, files, buffer_path,
                           memory, learner, curr_state, loc, out, full_adds, trn,
                           tch >>

Initialize ==
    /\ pc = "start"
    /\ IF ModeCount(args) # 1
         THEN InitFail("AssertionError")                            \* lines 40-46
         ELSE IF args.student \/ args.test THEN InitBuffer ELSE InitDump

\* ------------------------------------------------------------- select_action, step
\* self._preprocess_state(state): the observation as a tensor on the device
PreprocessState(state) == [ tensor |-> state ]

\* self.learner.dqn(x): the network's Q-vector for that input
Dqn(x) == [ q_of |-> x.tensor ]

SelectActionStale(state) ==
    LET q_values == Dqn(PreprocessState(state))
    IN  [ curr_state |-> curr_state, action |-> [ argmax_of |-> q_values ],
          q_values |-> q_values ]

\* lines 100-112, with args.test set (line 107 then never explores): what the call
\* leaves in self.curr_state and the (selected_action, q_values) it returns
SelectAction(state) ==
    LET q_values == Dqn(PreprocessState(state))
    IN  [ curr_state |-> state, action |-> [ argmax_of |-> q_values ],
          q_values |-> q_values ]

\* line 121
StepData(cs, q_values) == << cs, q_values >>

\* env.step: whether the episode running since the last env.reset reports done now
EnvDone == /\ env[loc.resets][1] = "done_after"
           /\ env[loc.resets][2] = loc.step + 1

\* ------------------------------------------------------------- _test
WhileCondNoCap == ~loc.done

WhileCondIgnoreDone == memory.idx # hyper_params.buffer_size

\* line 166
WhileCond == ~loc.done /\ memory.idx # hyper_params.buffer_size

BreakCondNever == FALSE

\* line 185
BreakCond == memory.idx = hyper_params.buffer_size

TestFrame == << args, hyper_params, env, stored, error, attrs, dirs, made, files,
                buffer_path, learner, save_distillation_dir, save_count, trn, tch >>

\* lines 131-134: agent.test() of a collection run enters _test(interim_test=False)
TestEnter ==
    /\ pc = "ready"
    /\ args.test
    /\ loc' = [ loc EXCEPT !.test_num = args.episode_num, !.next = 0 ]
    /\ pc' = "test_for"
    /\ UNCHANGED << memory, curr_state, out, full_adds >>
    /\ UNCHANGED TestFrame

\* lines 160-164: the next episode of range(test_num)
TestEpisode ==
    /\ pc = "test_for"
    /\ loc.next < loc.test_num
    /\ \E s \in States :
         loc' = [ loc EXCEPT !.i_episode = loc.next, !.next = @ + 1, !.state = s,
                             !.done = FALSE, !.step = 0, !.resets = @ + 1 ]
    /\ pc' = "test_while"
    /\ UNCHANGED << memory, curr_state, out, full_adds >>
    /\ UNCHANGED TestFrame

\* range(test_num) is exhausted: _test returns
TestExhausted ==
    /\ pc = "test_for"
    /\ loc.next >= loc.test_num
    /\ pc' = "test_done"
    /\ UNCHANGED << memory, curr_state, loc, out, full_adds >>
    /\ UNCHANGED TestFrame

\* lines 166-175: one pass of the while body, select_action then step (lines 118-124)
TestStep ==
    /\ pc = "test_while"
    /\ WhileCond
    /\ LET sa == SelectAction(loc.state)
       IN  /\ curr_state' = sa.curr_state
           /\ IF Collecting(args)                                    \* line 118
                THEN /\ memory' = BufferAdd(memory, StepData(curr_state', sa.q_values),
                                            hyper_params.buffer_size)
                     /\ full_adds' = full_adds
                                       + B2N(memory.idx = hyper_params.buffer_size)
                ELSE UNCHANGED << memory, full_adds >>              \* DQNAgent.step
    /\ \E next_state \in States :
         loc' = [ loc EXCEPT !.state = next_state, !.done = EnvDone, !.step = @ + 1,
                             !.taken = @ + 1, !.finished = @ + B2N(EnvDone),
                             !.passed = Append(@, loc.state) ]
    /\ pc' = "test_while"
    /\ UNCHANGED out
    /\ UNCHANGED TestFrame

\* lines 177-187: the episode's report, then the break when the buffer is full
TestReport ==
    /\ pc = "test_while"
    /\ ~WhileCond
    /\ LET info == [ kind |-> "test", i_episode |-> loc.i_episode, step |-> loc.step,
                     idx |-> memory.idx ]
       IN  IF BreakCond
             THEN /\ out' = out \o << info, [ kind |-> "saved", i_episode |-> loc.i_episode,
                                               step |-> loc.step, idx |-> memory.idx ] >>
                  /\ pc' = "test_done"
             ELSE /\ out' = Append(out, info)
                  /\ pc' = "test_for"
    /\ UNCHANGED << memory, curr_state, loc, full_adds >>
    /\ UNCHANGED TestFrame

\* ------------------------------------------------------------- train, student
TrainFrame == << args, hyper_params, env, stored, attrs, dirs, made, buffer_path,
                 save_distillation_dir, save_count, curr_state, loc, out, full_adds,
                 tch >>

BatchAssertOff(m) == TRUE

\* line 215
BatchAssert(m) == m.buffer_size >= hyper_params.batch_size

EpochBoundarySkipFirst(steps, iter_1) == steps > 0 /\ steps % iter_1 = 0

\* line 231
EpochBoundary(steps, iter_1) == steps % iter_1 = 0

SaveTagCount(steps) == steps + 1

\* the tag handed to self.learner.save_params (lines 236, 240)
SaveTag(steps) == steps

\* self.learner.save_params(tag)
SaveParams(l, tag) == [ l EXCEPT !.saves = Append(@, tag) ]

\* lines 213-224
TrainStudent ==
    /\ pc = "ready"
    /\ args.student
    /\ memory' = ResetDataloader(memory)
    /\ IF ~BatchAssert(memory')
         THEN /\ pc' = "failed"
              /\ error' = "AssertionError"
              /\ UNCHANGED trn
         ELSE /\ trn' = [ trn EXCEPT
                            !.iter_1 = memory'.buffer_size \div hyper_params.batch_size,
                            !.train_steps = (memory'.buffer_size \div hyper_params.batch_size)
                                              * hyper_params.epochs,
                            !.n_epoch = 0, !.next = 0 ]
              /\ pc' = "train_for"
              /\ UNCHANGED error
    /\ UNCHANGED << files, learner >>
    /\ UNCHANGED TrainFrame

\* lines 225-238: one pass of the loop body, update_distillation (lines 189-209) first
TrainStep ==
    /\ pc = "train_for"
    /\ trn.next < trn.train_steps
    /\ IF ~HasBatch(memory)
         THEN /\ pc' = "failed"
              /\ error' = "StopIteration"
              /\ trn' = [ trn EXCEPT !.steps = trn.next, !.steps_bound = TRUE ]
              /\ UNCHANGED << memory, learner >>
         ELSE LET steps == trn.next
                  updated == [ learner EXCEPT !.updates = @ + 1 ]
              IN  /\ IF EpochBoundary(steps, trn.iter_1)
                       THEN /\ learner' = SaveParams(updated, SaveTag(steps))
                            /\ memory' = ResetDataloader(NextBatch(memory))
                            /\ trn' = [ trn EXCEPT !.steps = steps, !.steps_bound = TRUE,
                                                   !.next = @ + 1, !.n_epoch = @ + 1 ]
                       ELSE /\ learner' = updated
                            /\ memory' = NextBatch(memory)
                            /\ trn' = [ trn EXCEPT !.steps = steps, !.steps_bound = TRUE,
                                                   !.next = @ + 1 ]
                  /\ pc' = "train_for"
                  /\ UNCHANGED error
    /\ UNCHANGED files
    /\ UNCHANGED TrainFrame

\* line 240: range(train_steps) is exhausted; `steps` is the last index the loop bound
TrainFinish ==
    /\ pc = "train_for"
    /\ trn.next >= trn.train_steps
    /\ IF trn.steps_bound
         THEN /\ learner' = SaveParams(learner, SaveTag(trn.steps))
              /\ pc' = "train_done"
              /\ UNCHANGED error
         ELSE /\ pc' = "failed"
              /\ error' = "UnboundLocalError"
              /\ UNCHANGED learner
    /\ UNCHANGED << files, memory, trn >>
    /\ UNCHANGED TrainFrame

\* ------------------------------------------------------------- train, add_expert_q
\* lines 246-252: [current_dir, x] for every file x of every sub-directory of every
\* source directory; os.listdir fixes no order, so the entries are kept as a set
GatherFiles ==
    UNION { UNION { { [ dir |-> hyper_params.buffer_path[i] \o << sub >>, name |-> x ]
                      : x \in ListDir(hyper_params.buffer_path[i] \o << sub >>) }
                    : sub \in ListDir(hyper_params.buffer_path[i]) }
            : i \in 1..Len(hyper_params.buffer_path) }

TrainGather ==
    /\ pc = "ready"
    /\ ~args.student /\ args.add_expert_q
    /\ trn' = [ trn EXCEPT !.file_name_list = GatherFiles, !.todo = GatherFiles ]
    /\ pc' = "augment_for"
    /\ UNCHANGED << error, files, memory, learner >>
    /\ UNCHANGED TrainFrame

\* line 261: where the relabelled record of entry e is written
OutputPath(e) == save_distillation_dir \o << e.name >>

\* lines 255-259, 262: the record written for the state loaded from entry e
Relabelled(e) ==
    LET state == files[e.dir \o << e.name >>][1]
    IN  << state, Dqn([ tensor |-> state ]) >>

\* lines 254-262: one entry of file_name_list
AugmentOne ==
    /\ pc = "augment_for"
    /\ \E e \in trn.todo :
         /\ files' = WriteFile(files, OutputPath(e), Relabelled(e))
         /\ trn' = [ trn EXCEPT !.todo = @ \ { e } ]
    /\ UNCHANGED << pc, error, memory, learner >>
    /\ UNCHANGED TrainFrame

AugmentDone ==
    /\ pc = "augment_for"
    /\ trn.todo = {}
    /\ pc' = "train_done"
    /\ UNCHANGED << error, files, memory, learner, trn >>
    /\ UNCHANGED TrainFrame

\* ------------------------------------------------------------- teacher
PersistsAlways(is_test) == TRUE

\* lines 82-85: a teacher's select_action dumps the state unless is_test is set
Persists(is_test) == ~is_test

\* lines 88, 90
EpisodeDir(i_episode) == save_distillation_dir \o << ToString(i_episode) >>

RecordPathByEpisode(i_episode, count) ==
    save_distillation_dir \o << ToString(i_episode), PklName(i_episode) >>

\* lines 91-95
RecordPath(i_episode, count) ==
    save_distillation_dir \o << ToString(i_episode), PklName(count) >>

NextSaveCountStuck(count) == count

\* line 98
NextSaveCount(count) == count + 1

\* lines 82-99: what a teacher's select_action(state, is_test) does to the disk
TeacherSelect(state, is_test) ==
    IF Persists(is_test)
      THEN /\ dirs' = dirs \cup { EpisodeDir(tch.i_episode) }                \* lines 87-90
           /\ made' = made \cup ({ EpisodeDir(tch.i_episode) } \ dirs)
           /\ files' = WriteFile(files, RecordPath(tch.i_episode, save_count), << state >>)
           /\ save_count' = NextSaveCount(save_count)
      ELSE UNCHANGED << dirs, made, files, save_count >>

\* lines 118-126: step(action) called without q_values, as the base loops call it
BaseStep ==
    IF Collecting(args)
      THEN memory' = BufferAdd(memory, StepData(curr_state, 0), hyper_params.buffer_size)
      ELSE UNCHANGED memory                                         \* DQNAgent.step

TeacherFrame == << args, hyper_params, env, stored, error, attrs, buffer_path, learner,
                   save_distillation_dir, curr_state, out, full_adds, trn >>

\* lines 264-265: DQNAgent.train, the episodes 1..episode_num
TeacherTrain ==
    /\ pc = "ready"
    /\ ~args.student /\ ~args.add_expert_q /\ args.teacher
    /\ tch' = [ tch EXCEPT !.next = 1 ]
    /\ pc' = "teach_for"
    /\ UNCHANGED << dirs, made, files, save_count, memory, loc >>
    /\ UNCHANGED TeacherFrame

\* DQNAgent.train: the next training episode sets self.i_episode and resets the env
TeacherEpisode ==
    /\ pc = "teach_for"
    /\ tch.next <= args.episode_num
    /\ \E s \in States :
         tch' = [ tch EXCEPT !.i_episode = tch.next, !.state = s, !.done = FALSE ]
    /\ pc' = "teach_while"
    /\ UNCHANGED << dirs, made, files, save_count, memory, loc >>
    /\ UNCHANGED TeacherFrame

\* DQNAgent.train: one training step, select_action(state) then step(action)
TeacherStep ==
    /\ pc = "teach_while"
    /\ ~tch.done
    /\ save_count < MaxDumped
    /\ TeacherSelect(tch.state, FALSE)
    /\ BaseStep
    /\ \E next_state \in States, done \in BOOLEAN :
         tch' = [ tch EXCEPT !.state = next_state, !.done = done, !.calls = @ + 1 ]
    /\ pc' = "teach_while"
    /\ UNCHANGED loc
    /\ UNCHANGED TeacherFrame

\* DQNAgent.train: the episode is over and its state and done are dead, the next
\* episode assigns them anew; an interim test may follow (lines 131-132)
TeacherEpisodeEnd ==
    /\ pc = "teach_while"
    /\ tch.done
    /\ \/ /\ pc' = "teach_for"
          /\ tch' = [ tch EXCEPT !.next = @ + 1, !.state = 0, !.done = FALSE ]
          /\ UNCHANGED loc
       \/ /\ pc' = "eval_for"
          /\ loc' = [ loc EXCEPT !.test_num = args.interim_test_num, !.next = 0 ]
          /\ tch' = [ tch EXCEPT !.state = 0, !.done = FALSE ]
    /\ UNCHANGED << dirs, made, files, save_count, memory >>
    /\ UNCHANGED TeacherFrame

TeacherTrainDone ==
    /\ pc = "teach_for"
    /\ tch.next > args.episode_num
    /\ pc' = "train_done"
    /\ UNCHANGED << dirs, made, files, save_count, memory, loc, tch >>
    /\ UNCHANGED TeacherFrame

\* lines 137-141: the next evaluation episode of a teacher's _test
EvalEpisode ==
    /\ pc = "eval_for"
    /\ loc.next < loc.test_num
    /\ \E s \in States :
         loc' = [ loc EXCEPT !.i_episode = loc.next, !.next = @ + 1, !.state = s,
                             !.done = FALSE, !.step = 0 ]
    /\ pc' = "eval_while"
    /\ UNCHANGED << dirs, made, files, save_count, memory, tch >>
    /\ UNCHANGED TeacherFrame

\* lines 143-152: one evaluation step, select_action(state, is_test=True) then step;
\* the episode reports done after MaxEpLen steps at the latest
EvalStep ==
    /\ pc = "eval_while"
    /\ ~loc.done
    /\ TeacherSelect(loc.state, TRUE)
    /\ BaseStep
    /\ \E next_state \in States,
          done \in (IF loc.step + 1 >= MaxEpLen THEN { TRUE } ELSE BOOLEAN) :
         loc' = [ loc EXCEPT !.state = next_state, !.done = done, !.step = @ + 1 ]
    /\ pc' = "eval_while"
    /\ UNCHANGED tch
    /\ UNCHANGED TeacherFrame

\* lines 154-158: the episode's report; state, done and step are dead from here on,
\* line 138 assigns them anew
EvalReport ==
    /\ pc = "eval_while"
    /\ loc.done
    /\ pc' = "eval_for"
    /\ loc' = [ loc EXCEPT !.state = 0, !.done = FALSE, !.step = 0 ]
    /\ UNCHANGED << dirs, made, files, save_count, memory, tch >>
    /\ UNCHANGED TeacherFrame

\* range(test_num) is exhausted: _test returns into DQNAgent.train, its locals are gone
EvalDone ==
    /\ pc = "eval_for"
    /\ loc.next >= loc.test_num
    /\ pc' = "teach_for"
    /\ tch' = [ tch EXCEPT !.next = @ + 1 ]
    /\ loc' = NoLoc
    /\ UNCHANGED << dirs, made, files, save_count, memory >>
    /\ UNCHANGED TeacherFrame

Next ==
    \/ Initialize
    \/ TestEnter
    \/ TestEpisode
    \/ TestExhausted
    \/ TestStep
    \/ TestReport
    \/ TrainStudent
    \/ TrainStep
    \/ TrainFinish
    \/ TrainGather
    \/ AugmentOne
    \/ AugmentDone
    \/ TeacherTrain
    \/ TeacherEpisode
    \/ TeacherStep
    \/ TeacherEpisodeEnd
    \/ TeacherTrainDone
    \/ EvalEpisode
    \/ EvalStep
    \/ EvalReport
    \/ EvalDone

\* ------------------------------------------------------------- properties
Min(a, b) == IF a < b THEN a ELSE b

Ended == pc \in { "failed", "test_done", "train_done" }

\* C1: _initialize fails at once with the assertion error whenever the number of true
\* mode flags is not exactly 1, and then has created no directory, constructed no
\* buffer and initialised no save counter (it defined no attribute at all); with
\* exactly one flag true the mode check passes.
C1_ModeCheck ==
    pc # "start" =>
      IF ModeOf(args) = "invalid"
        THEN /\ pc = "failed" /\ error = "AssertionError"
             /\ made = {} /\ memory = NoMemory /\ attrs = {}
        ELSE ~(error = "AssertionError" /\ attrs = {})

C1_Witness ==
    pc = "failed" /\ error = "AssertionError" /\ args.teacher /\ args.student

\* the steps the configured episodes take when none is cut short
RECURSIVE SumLens(_)
SumLens(k) == IF k = 0 THEN 0 ELSE env[k][2] + SumLens(k - 1)

Unending == \E k \in DOMAIN env : env[k][1] = "never"

ExpectedSamples ==
    IF Unending THEN hyper_params.buffer_size
    ELSE Min(hyper_params.buffer_size, SumLens(args.episode_num))

\* C2: in a collection run the fill level equals the number of environment steps taken
\* (one sample per step), and when the run has completed the number of samples
\* written is min(buffer_size, total steps of the configured episodes).
C2_SamplesWritten ==
    ModeOf(args) = "test" =>
      /\ memory.idx = loc.taken
      /\ Len(memory.data) = memory.idx
      /\ pc = "test_done" => memory.idx = ExpectedSamples

C2_Witness ==
    /\ pc = "test_done" /\ loc.resets = 2
    /\ memory.idx = hyper_params.buffer_size /\ memory.idx = 3
    /\ ~Unending /\ SumLens(args.episode_num) > hyper_params.buffer_size

\* C3: in every state of a collection run 0 <= idx <= buffer_size, and step is never
\* called to append while idx already equals buffer_size.
C3_WithinCapacity ==
    ModeOf(args) = "test" =>
      /\ 0 <= memory.idx /\ memory.idx <= hyper_params.buffer_size
      /\ full_adds = 0

C3_Witness ==
    /\ pc = "test_while" /\ ~loc.done /\ env[loc.resets][1] = "never"
    /\ memory.idx = hyper_params.buffer_size /\ memory.idx > 1

\* C4: once idx = buffer_size the collection run takes no further environment step,
\* appends no further sample and starts no further episode; and a run whose episodes
\* would take more than buffer_size steps ends without having played them all out.
C4_StopsWhenFull ==
    [][ /\ (ModeOf(args) = "test" /\ memory.idx = hyper_params.buffer_size)
           => /\ loc'.resets = loc.resets
              /\ loc'.taken = loc.taken
              /\ memory'.data = memory.data
        /\ (pc' = "test_done" /\ ModeOf(args) = "test" /\ ~Unending
               /\ SumLens(args.episode_num) > hyper_params.buffer_size)
           => loc'.finished < args.episode_num ]_vars

C4_Witness ==
    /\ pc = "test_done" /\ memory.idx = hyper_params.buffer_size
    /\ loc.resets < args.episode_num

\* C5: a collection run ends with a full buffer, or else with every configured
\* episode played and an explicit early-exhaustion signal emitted.
C5_FullOrSignalled ==
    (ModeOf(args) = "test" /\ pc = "test_done") =>
      \/ memory.idx = hyper_params.buffer_size
      \/ /\ loc.next >= loc.test_num
         /\ \E i \in DOMAIN out : out[i].kind \notin { "test", "saved" }

\* what a student run computes from the samples found and the configuration
IterationsPerEpoch == stored \div hyper_params.batch_size

TrainSteps == IterationsPerEpoch * hyper_params.epochs

\* C6 as stated: with buffer_size >= batch_size a student run executes exactly
\* train_steps distillation steps and resets the dataloader exactly `epochs` times.
C6_ResetsEpochsTimes ==
    (ModeOf(args) = "student" /\ stored >= hyper_params.batch_size
       /\ pc = "train_done") =>
      /\ learner.updates = TrainSteps
      /\ memory.resets = hyper_params.epochs

\* C6 as amended: with buffer_size >= batch_size a student run executes exactly
\* train_steps distillation steps and resets the dataloader exactly epochs + 1 times:
\* once before the loop and once after each step whose index is divisible by
\* iterations_per_epoch, step 0 included.
C6_ResetsEpochsPlusOne ==
    (ModeOf(args) = "student" /\ stored >= hyper_params.batch_size) =>
      /\ memory.resets <= hyper_params.epochs + 1
      /\ Ended => /\ learner.updates = TrainSteps
                  /\ memory.resets = hyper_params.epochs + 1

C6_Witness ==
    /\ pc = "train_done" /\ ModeOf(args) = "student"
    /\ hyper_params.epochs = 2 /\ IterationsPerEpoch = 2 /\ memory.resets = 3

\* the step indices in 0..train_steps-1 divisible by iterations_per_epoch, increasing
Boundaries == [ k \in 1..hyper_params.epochs |-> (k - 1) * IterationsPerEpoch ]

\* C7: a student run with epochs >= 1 completes, and its checkpoint tags are exactly
\* the step indices divisible by iterations_per_epoch in increasing order, then one
\* final checkpoint tagged train_steps - 1 (buffer 4, batch 2, epochs 3: 0, 2, 4, 5).
C7_CheckpointTags ==
    (ModeOf(args) = "student" /\ stored >= hyper_params.batch_size
       /\ hyper_params.epochs >= 1) =>
      /\ pc # "failed"
      /\ pc = "train_done" =>
           /\ learner.saves = Boundaries \o << TrainSteps - 1 >>
           /\ (stored = 4 /\ hyper_params.batch_size = 2 /\ hyper_params.epochs = 3)
                => learner.saves = << 0, 2, 4, 5 >>

C7_Witness ==
    /\ pc = "train_done" /\ stored = 4 /\ hyper_params.batch_size = 2
    /\ hyper_params.epochs = 3 /\ Len(learner.saves) = 4

\* C8: every Transition Sample of a collection run pairs the state passed to the
\* i-th select_action call with the Q-vector the network gives for that same state.
C8_PairedWithOwnQ ==
    ModeOf(args) = "test" =>
      /\ Len(memory.data) = Len(loc.passed)
      /\ \A i \in 1..Len(memory.data) :
           /\ memory.data[i][1] = loc.passed[i]
           /\ memory.data[i][2] = [ q_of |-> loc.passed[i] ]

C8_Witness ==
    /\ Len(memory.data) = 3
    /\ memory.data[1][1] # memory.data[2][1] /\ memory.data[2][1] # memory.data[3][1]
    /\ loc.resets = 2

\* the records the augmentation pass has written into its output directory
Outputs == { p \in DOMAIN files : IsPrefix(DumpDir, p) }

\* C9: the augmentation pass writes exactly one output file per input Raw State
\* Record, with the input's base filename and the input's state field, so the number
\* of output files equals the number of input records.
C9_OneOutputPerInput ==
    (ModeOf(args) = "add_expert_q" /\ pc = "train_done") =>
      /\ Cardinality(Outputs) = Cardinality(trn.file_name_list)
      /\ \A e \in trn.file_name_list :
           /\ DumpDir \o << e.name >> \in Outputs
           /\ files[DumpDir \o << e.name >>][1] = files[e.dir \o << e.name >>][1]

\* C10: a student run with buffer_size < batch_size ends in the assertion error of
\* train before any distillation update, optimizer step or checkpoint.
C10_TooSmallBufferFails ==
    (ModeOf(args) = "student" /\ stored < hyper_params.batch_size) =>
      /\ learner.updates = 0 /\ learner.saves = << >>
      /\ pc \in { "start", "ready", "failed" }
      /\ pc = "failed" => error = "AssertionError"

C10_Witness ==
    /\ pc = "failed" /\ error = "AssertionError" /\ ModeOf(args) = "student"
    /\ memory.resets = 1 /\ stored = 1 /\ hyper_params.batch_size = 2

\* the Raw State Records this teacher run has written under its dump directory
RawStateRecords ==
    { p \in DOMAIN files : IsPrefix(DumpDir, p) /\ Len(p) = Len(DumpDir) + 2 }

TeacherRunning ==
    /\ ModeOf(args) = "teacher"
    /\ pc \in { "ready", "teach_for", "teach_while", "eval_for", "eval_while", "train_done" }

\* C11: in teacher mode every training-pass select_action call writes exactly one new
\* Raw State Record at <dump_dir>/<i_episode>/<save_count>.pkl holding the state it was
\* given, creates the episode's directory if it was absent, changes no other file and
\* increments save_count by one; at every point of the run the number of record files
\* equals the number of such calls and equals save_count.
C11_OneRecordPerCall ==
    /\ [][ TeacherStep =>
             LET d == DumpDir \o << ToString(tch.i_episode) >>
                 p == d \o << PklName(save_count) >>
             IN  /\ p \notin DOMAIN files
                 /\ DOMAIN files' = DOMAIN files \cup { p }
                 /\ files'[p] = << tch.state >>
                 /\ \A q \in DOMAIN files : files'[q] = files[q]
                 /\ dirs' = dirs \cup { d }
                 /\ save_count' = save_count + 1 ]_vars
    /\ [](TeacherRunning =>
            /\ Cardinality(RawStateRecords) = tch.calls
            /\ tch.calls = save_count)

C11_Witness ==
    /\ TeacherRunning /\ save_count >= 2 /\ tch.calls = save_count
    /\ \E p, q \in RawStateRecords : p[Len(DumpDir) + 1] # q[Len(DumpDir) + 1]

\* C12: step appends to the Distillation Buffer only in a pure collection pass (test
\* set, teacher and student not set), one sample per call; in every other mode the
\* buffer's samples and fill level never change, and a student run never changes the
\* samples stored under its buffer path.
C12_AppendsOnlyWhenCollecting ==
    /\ [][ (memory'.idx # memory.idx \/ memory'.data # memory.data) =>
             /\ args.test /\ ~args.teacher /\ ~args.student
             /\ pc = "test_while"
             /\ memory'.idx = memory.idx + 1
             /\ Len(memory'.data) = Len(memory.data) + 1 ]_vars
    /\ [][ stored' = stored ]_vars
    /\ []((ModeOf(args) # "invalid" /\ ~args.test) => (memory.idx = 0 /\ memory.data = << >>))

C12_Witness ==
    /\ ModeOf(args) = "teacher" /\ pc = "eval_while"
    /\ tch.calls >= 1 /\ loc.step >= 1
    /\ memory.idx = 0 /\ memory.data = << >>

C14_EvaluationPersistsNothing ==
    [][ (ModeOf(args) = "teacher" /\ pc \in { "eval_for", "eval_while" }) =>
          /\ files' = files
          /\ dirs' = dirs
          /\ save_count' = save_count
          /\ memory' = memory ]_vars

C14_Witness ==
    /\ ModeOf(args) = "teacher" /\ pc = "eval_while"
    /\ loc.next = 2 /\ loc.step >= 2 /\ loc.done
    /\ save_count >= 1 /\ Cardinality(RawStateRecords) = save_count

\* C15: a student run with buffer_size >= batch_size ends normally for every value of
\* epochs, train_steps = 0 included, and its last action is a final save_params call,
\* tagged with the last step.
C15_FinalSaveAlways ==
    (ModeOf(args) = "student" /\ stored >= hyper_params.batch_size /\ Ended) =>
      /\ pc = "train_done" /\ error = "none"
      /\ Len(learner.saves) >= 1
      /\ TrainSteps >= 1 => learner.saves[Len(learner.saves)] = TrainSteps - 1

\* C16: within one teacher run save_count is 0 after _initialize, never decreases, and
\* is left alone when an episode starts or ends, so the base filenames of all Raw State
\* Records of the run are pairwise distinct, whatever episode directory they lie in.
C16_SaveCountMonotone ==
    /\ [][ (ModeOf(args) = "teacher" /\ pc = "start" /\ pc' = "ready") =>
             save_count' = 0 ]_vars
    /\ [][ TeacherRunning => save_count' >= save_count ]_vars
    /\ [][ (TeacherEpisode \/ TeacherEpisodeEnd \/ EvalDone) =>
             save_count' = save_count ]_vars
    /\ [](TeacherRunning =>
            \A p, q \in RawStateRecords : p # q => p[Len(p)] # q[Len(q)])

C16_Witness ==
    /\ TeacherRunning /\ tch.i_episode = 2 /\ save_count = 2
    /\ DumpDir \o << "1", PklName(0) >> \in RawStateRecords
    /\ DumpDir \o << "2", PklName(1) >> \in RawStateRecords

\* an upper bound on the steps a collection run has yet to take: every episode still
\* to start costs at most buffer_size + 3 steps, the running one one step per sample
\* the buffer can still take, the final pass of its loop test and its report
Rank ==
    LET w == hyper_params.buffer_size + 3
    IN  CASE pc = "ready"      -> args.episode_num * w + 2
          [] pc = "test_for"   -> (loc.test_num - loc.next) * w + 1
          [] pc = "test_while" -> (loc.test_num - loc.next) * w + 2
                                    + (hyper_params.buffer_size - memory.idx)
                                    + (IF loc.done THEN 0 ELSE 1)
          [] OTHER             -> 0

\* C17: a collection run always terminates, even when an episode never reports done:
\* every step of the run lowers a non-negative bound on the steps left (each pass of
\* the inner loop appends one sample, and the loop ends at the latest when idx reaches
\* buffer_size), and every run that has passed _initialize reaches the end of _test.
C17_CollectionTerminates ==
    /\ [](ModeOf(args) = "test" => (memory.idx <= hyper_params.buffer_size /\ Rank >= 0))
    /\ [][ (ModeOf(args) = "test" /\ pc \in { "ready", "test_for", "test_while" }) =>
             Rank' < Rank ]_vars
    /\ [][ (ModeOf(args) = "test" /\ pc = "test_while" /\ pc' = "test_while") =>
             memory'.idx = memory.idx + 1 ]_vars
    /\ ((ModeOf(args) = "test" /\ pc = "ready") ~> (pc = "test_done"))

C17_Witness ==
    /\ ModeOf(args) = "test" /\ pc = "test_done"
    /\ loc.finished = 0 /\ ~loc.done
    /\ hyper_params.buffer_size = 3 /\ memory.idx = 3 /\ loc.taken = 3

\* C18: in teacher or add_expert_q mode _initialize fails with FileExistsError when the
\* dump directory it is about to create already exists; the files and directories on
\* disk are then left as they were and the save counter is not initialised.
C18_ExistingDumpDirFatal ==
    /\ [][ (pc = "start" /\ ModeOf(args) \in { "teacher", "add_expert_q" }
              /\ DumpDir \in dirs) =>
             /\ pc' = "failed" /\ error' = "FileExistsError"
             /\ files' = files /\ dirs' = dirs /\ made' = made
             /\ "save_count" \notin attrs' ]_vars
    /\ [][ pc = "failed" => (files' = files /\ dirs' = dirs) ]_vars

C18_Witness ==
    /\ pc = "failed" /\ error = "FileExistsError"
    /\ ModeOf(args) = "teacher"
    /\ DumpDir \o << "1", PklName(0) >> \in DOMAIN files
    /\ "save_count" \notin attrs

Spec == Init /\ [][Next]_vars

\* the run keeps taking steps while it has one to take
SpecLive == Spec /\ WF_vars(Next)
=============================================================================
